---- MODULE Spec2Model ----
(***************************************************************************)
(* Authentication state store of the React client                          *)
(* (components/AuthenticationProvider.tsx, the revision that carries the   *)
(* isLoading flag).                                                        *)
(*                                                                         *)
(* The Session is the three React state cells isLoading, accessToken and   *)
(* currentUser.  Each of refreshAccessToken, handleLogin and handleLogout  *)
(* is an async function with one suspension point, the await of the        *)
(* transport call.  An invocation runs synchronously up to that await      *)
(* (setIsLoading(true), request sent); the continuation after the await    *)
(* runs synchronously to the end of the function (try body or catch, then  *)
(* finally).  The setState calls made inside one synchronous run are       *)
(* batched by React into one render, so a run is one atomic step of the    *)
(* Session as consumers of the context see it.                             *)
(*                                                                         *)
(* The router side is the rendered destination and its redirect search     *)
(* parameter: the entry check of the _protected layout, the authenticating *)
(* route with its search schema and its effect, and the login and logout   *)
(* routes.  A navigation, with the redirects it runs into, is one step.    *)
(* last and nav describe the step just taken.                              *)
(*                                                                         *)
(* The login form submits through handleLogin and continues, once the      *)
(* promise has settled, with a navigation or with its inline error         *)
(* message.  The transport side is the bearer credential of each backend   *)
(* call, the UsersService singleton and the browser's sessionStorage.      *)
(* Every client is created by Client.new, which refuses a missing or       *)
(* invalid base URL; baseUrl is the value the configuration holds.         *)
(***************************************************************************)
EXTENDS Integers, Sequences, FiniteSets, TLC

VARIABLES isLoading, accessToken, currentUser, mounted, calls, last,
          strictMode, route, redirect, requested, nav,
          errorMessage, resume, usersService, sessionStorage, baseUrl

vars == <<isLoading, accessToken, currentUser, mounted, calls, last,
          strictMode, route, redirect, requested, nav,
          errorMessage, resume, usersService, sessionStorage, baseUrl>>

\* the router's side of the state: rendered destination, its redirect search
\* parameter, the path whose entry check led to the authenticating route (while
\* that route is rendered), the latest navigation
routerVars == <<route, redirect, requested, nav>>

\* the Session cells and the mount flag of the provider
storeVars == <<isLoading, accessToken, currentUser, mounted>>

\* the login form's side: its inline error message, and the redirect target a
\* successful login is being resumed to while the authenticating route is
\* rendered on the way
formVars == <<errorMessage, resume>>

\* the transport's side outside the provider: the bearer credential held by
\* the UsersService singleton, the sessionStorage item "accessToken", and the
\* base URL of the backend as the configuration singleton holds it
clientVars == <<usersService, sessionStorage, baseUrl>>

(***************************************************************************)
(* Bounds of the model.                                                    *)
(***************************************************************************)
\* number of invocations of the three operations in one behaviour
MaxCalls == 3

(***************************************************************************)
(* Values.                                                                 *)
(***************************************************************************)
\* `undefined`: the value of useState() without an initial value
Absent == "Absent"
\* `null`
Null == "Null"
\* access tokens the backend may issue
Tokens == {"tok1", "tok2"}
\* an optional protobuf field that is not set
Undefined == "Undefined"
\* token field of a response: unset, empty string, or a token
ResponseTokens == {Undefined, ""} \cup Tokens

\* enum Role
Role == {"admin", "user", "guest"}
RoleUser == "user"

AbsentUser == [tag |-> "Absent"]
NullUser == [tag |-> "Null"]
NoUserResponse == [tag |-> "Undefined"]
\* UserResponse messages of the backend; "root" is a role outside enum Role
UserResponses == {[tag |-> "UserResponse", id |-> "u1", role |-> "admin"],
                  [tag |-> "UserResponse", id |-> "u2", role |-> "root"]}

\* Maps a gRPC UserResponse to a domain User
userFromUserResponse(rpc) ==
  [tag |-> "User",
   id |-> rpc.id,
   role |-> IF rpc.role \in Role THEN rpc.role ELSE RoleUser]

Users == {userFromUserResponse(r) : r \in UserResponses}

\* AUTHENTICATION_ERRORS and the transport's own error
NoError == "none"
\* message of the error the transport rejects with (percent-encoded)
RpcError == "invalid%20credentials"
INVALID_LOGIN == "Login request failed."
INVALID_LOGOUT == "Logout request failed."

(***************************************************************************)
(* Outcomes of the transport calls: the promise rejects, or resolves with  *)
(* a response message.                                                     *)
(***************************************************************************)
Reject == [kind |-> "reject"]

\* the user a token is issued for; a response without a token may still
\* carry a user
IssuedTo(t) ==
  CHOOSE u \in UserResponses : (t = "tok2") <=> (u.id = "u2")

\* LoginResponse / RefreshResponse: optional token, optional user
TokenResponses ==
  UNION {{[kind |-> "ok", accessToken |-> t, user |-> u] :
            u \in {IssuedTo(t), NoUserResponse}} : t \in ResponseTokens}

\* LogoutResponse: success flag
LogoutResponses == {[kind |-> "ok", success |-> b] : b \in BOOLEAN}

\* JavaScript truthiness of an optional string (`!x` is its negation)
TruthyMutant(x) == x # Undefined
Truthy(x) == x # Undefined /\ x # ""

\* the guard `!response.accessToken || response.user === undefined`, negated
HasTokenAndUser(resp) ==
  Truthy(resp.accessToken) /\ resp.user # NoUserResponse

isAuthenticatedNotUndefined == currentUser # AbsentUser

\* isAuthenticated = !!currentUser
isAuthenticated == currentUser # AbsentUser /\ currentUser # NullUser

(***************************************************************************)
(* Transport: the bearer credential of a backend call, the UsersService    *)
(* singleton, sessionStorage, and the accessor of the Session.             *)
(***************************************************************************)
\* a call without an authorization header
NoBearer == [scheme |-> "none", token |-> Undefined]

authInterceptorAlways(token) == [scheme |-> "Bearer", token |-> token]

\* authInterceptor(accessToken): the authorization metadata the interceptor
\* adds to every call of its transport (`if (accessToken)`)
authInterceptor(token) ==
  IF Truthy(token) THEN [scheme |-> "Bearer", token |-> token] ELSE NoBearer

\* `accessToken ?? undefined`
NullishToUndefined(x) == IF x \in {Absent, Null} THEN Undefined ELSE x

\* the value the environment gives when VITE_BASE_URL is not set
DefaultBaseUrl == "http://127.0.0.1:8081"
\* values configuration.AUTHENTICATION_BASE_URL can hold: a URL, nothing,
\* the empty string, a host and port without a scheme
BaseUrls == {DefaultBaseUrl, Undefined, "", "127.0.0.1:8081"}

\* isValidUrl(url): `new URL(url)` does not throw
isValidUrl(url) ==
  CASE url = "http://127.0.0.1:8081" -> TRUE
    [] url = "127.0.0.1:8081" -> FALSE
    [] OTHER -> FALSE

\* no client: Client.new threw before it built a transport
NoClient == [scheme |-> "no client", token |-> Undefined]
\* the error Client.new throws for a missing or invalid base URL
CLIENT_ERROR == "Failed to create client: Invalid authentication base URL"

ClientNewUnchecked(token) == authInterceptor(token)

\* Client.new(accessToken): `if (!baseUrl || !isValidUrl(baseUrl)) throw`,
\* else a client over a new transport whose only interceptor is
\* authInterceptor(accessToken); the model keeps the credential its calls carry
ClientNew(token) ==
  IF ~Truthy(baseUrl) \/ ~isValidUrl(baseUrl) THEN NoClient
  ELSE authInterceptor(token)

\* the error a service function re-throws when its call did not produce a
\* response: the one of Client.new, or the one of the transport
TransportError ==
  IF ClientNew(Undefined) = NoClient THEN CLIENT_ERROR ELSE RpcError

\* sendLoginRequest: `await Client.new()`, then resolves with the response or
\* re-throws the error
sendLoginRequest ==
  IF ClientNew(Undefined) = NoClient THEN {Reject}
  ELSE TokenResponses \cup {Reject}
\* sendRefreshRequest: `await Client.new()`, then resolves with the response
\* or re-throws the error
sendRefreshRequest ==
  IF ClientNew(Undefined) = NoClient THEN {Reject}
  ELSE TokenResponses \cup {Reject}
\* sendLogoutRequest: `await Client.new()`, then resolves with the response or
\* re-throws the error
sendLogoutRequest ==
  IF ClientNew(Undefined) = NoClient THEN {Reject}
  ELSE LogoutResponses \cup {Reject}

\* UsersService.instance before the first getInstance
NoInstance == [scheme |-> "no instance", token |-> Undefined]

\* UsersService.getInstance(accessToken): the singleton, created on first use
UsersServiceGetInstance(token) ==
  IF usersService = NoInstance THEN ClientNew(token) ELSE usersService

\* sessionStorage.getItem("accessToken") when the item was never set
NoItem == "null"

\* String(x), as sessionStorage.setItem converts its value
StringOf(x) == IF x = Undefined THEN "undefined" ELSE x

CONTEXT_ERROR == "useAuth must be used inside of a AuthProvider"

\* the value of AuthenticationContext inside the provider (the action
\* functions left out)
Authentication ==
  [isLoading |-> isLoading, isAuthenticated |-> isAuthenticated,
   accessToken |-> accessToken, currentUser |-> currentUser]

\* useContext(AuthenticationContext) outside the provider: the default value
\* given to createContext, undefined
UndefinedContext == [tag |-> "undefined"]

\* a step that does not read through the accessor
NoRead == [thrown |-> "none", value |-> UndefinedContext]

useAuthenticationDefault(context) ==
  IF context = UndefinedContext
  THEN [thrown |-> "none",
        value |-> [isLoading |-> FALSE, isAuthenticated |-> FALSE,
                   accessToken |-> Absent, currentUser |-> AbsentUser]]
  ELSE [thrown |-> "none", value |-> context]

\* useAuthentication(): useContext(AuthenticationContext), an error when the
\* context is undefined
useAuthentication(context) ==
  IF context = UndefinedContext
  THEN [thrown |-> CONTEXT_ERROR, value |-> UndefinedContext]
  ELSE [thrown |-> "none", value |-> context]


(***************************************************************************)
(* The continuations of the three operations after the await.  Each takes  *)
(* the outcome of the transport call and the Session's token and user at   *)
(* that moment, and yields the values the Session holds once the run has   *)
(* ended, with the error the returned promise rejects with (NoError when   *)
(* it fulfils).                                                            *)
(***************************************************************************)
\* the error caught by the catch block of the token-returning operations
CaughtError(resp) == IF resp = Reject THEN TransportError ELSE INVALID_LOGIN

refreshAccessTokenRethrows(resp, tok, usr) ==
  IF resp # Reject /\ HasTokenAndUser(resp)
  THEN [accessToken |-> resp.accessToken,
        currentUser |-> userFromUserResponse(resp.user),
        isLoading |-> FALSE, raised |-> NoError]
  ELSE [accessToken |-> Null, currentUser |-> NullUser,
        isLoading |-> FALSE, raised |-> CaughtError(resp)]

refreshAccessTokenNoClear(resp, tok, usr) ==
  IF resp # Reject /\ HasTokenAndUser(resp)
  THEN [accessToken |-> resp.accessToken,
        currentUser |-> userFromUserResponse(resp.user),
        isLoading |-> FALSE, raised |-> NoError]
  ELSE [accessToken |-> tok, currentUser |-> usr,
        isLoading |-> FALSE, raised |-> NoError]

refreshAccessTokenStaleUser(resp, tok, usr) ==
  IF resp # Reject /\ HasTokenAndUser(resp)
  THEN [accessToken |-> resp.accessToken,
        currentUser |-> IF usr \in Users THEN usr
                        ELSE userFromUserResponse(resp.user),
        isLoading |-> FALSE, raised |-> NoError]
  ELSE [accessToken |-> Null, currentUser |-> NullUser,
        isLoading |-> FALSE, raised |-> NoError]

\* refreshAccessToken, from the resumption after `await sendRefreshRequest()`
refreshAccessToken(resp, tok, usr) ==
  IF resp # Reject /\ HasTokenAndUser(resp)
  THEN \* setAccessToken(token); setCurrentUser(user); finally
       [accessToken |-> resp.accessToken,
        currentUser |-> userFromUserResponse(resp.user),
        isLoading |-> FALSE, raised |-> NoError]
  ELSE \* catch: setAccessToken(null); setCurrentUser(null); finally
       [accessToken |-> Null, currentUser |-> NullUser,
        isLoading |-> FALSE, raised |-> NoError]

handleLoginKeepsUser(resp, tok, usr) ==
  IF resp # Reject /\ HasTokenAndUser(resp)
  THEN [accessToken |-> resp.accessToken,
        currentUser |-> userFromUserResponse(resp.user),
        isLoading |-> FALSE, raised |-> NoError]
  ELSE [accessToken |-> Null, currentUser |-> usr,
        isLoading |-> FALSE, raised |-> CaughtError(resp)]

handleLoginSwallows(resp, tok, usr) ==
  IF resp # Reject /\ HasTokenAndUser(resp)
  THEN [accessToken |-> resp.accessToken,
        currentUser |-> userFromUserResponse(resp.user),
        isLoading |-> FALSE, raised |-> NoError]
  ELSE [accessToken |-> Null, currentUser |-> NullUser,
        isLoading |-> FALSE, raised |-> NoError]

handleLoginStaleToken(resp, tok, usr) ==
  IF resp # Reject /\ HasTokenAndUser(resp)
  THEN [accessToken |-> IF tok \in Tokens THEN tok ELSE resp.accessToken,
        currentUser |-> userFromUserResponse(resp.user),
        isLoading |-> FALSE, raised |-> NoError]
  ELSE [accessToken |-> Null, currentUser |-> NullUser,
        isLoading |-> FALSE, raised |-> CaughtError(resp)]

\* handleLogin, from the resumption after `await sendLoginRequest(...)`
handleLogin(resp, tok, usr) ==
  IF resp # Reject /\ HasTokenAndUser(resp)
  THEN \* setAccessToken(response.accessToken); setCurrentUser(currentUser)
       [accessToken |-> resp.accessToken,
        currentUser |-> userFromUserResponse(resp.user),
        isLoading |-> FALSE, raised |-> NoError]
  ELSE \* catch: setAccessToken(null); setCurrentUser(null); throw error
       [accessToken |-> Null, currentUser |-> NullUser,
        isLoading |-> FALSE, raised |-> CaughtError(resp)]

handleLogoutNoFinally(resp, tok, usr) ==
  IF resp # Reject /\ resp.success
  THEN [accessToken |-> Null, currentUser |-> NullUser,
        isLoading |-> FALSE, raised |-> NoError]
  ELSE [accessToken |-> tok, currentUser |-> usr,
        isLoading |-> TRUE,
        raised |-> IF resp = Reject THEN TransportError ELSE INVALID_LOGOUT]

handleLogoutKeepsUser(resp, tok, usr) ==
  IF resp # Reject /\ resp.success
  THEN [accessToken |-> Null, currentUser |-> usr,
        isLoading |-> FALSE, raised |-> NoError]
  ELSE [accessToken |-> tok, currentUser |-> usr,
        isLoading |-> FALSE,
        raised |-> IF resp = Reject THEN TransportError ELSE INVALID_LOGOUT]

handleLogoutClearsOnFailure(resp, tok, usr) ==
  IF resp # Reject /\ resp.success
  THEN [accessToken |-> Null, currentUser |-> NullUser,
        isLoading |-> FALSE, raised |-> NoError]
  ELSE [accessToken |-> Null, currentUser |-> NullUser,
        isLoading |-> FALSE,
        raised |-> IF resp = Reject THEN TransportError ELSE INVALID_LOGOUT]

handleLogoutToAbsent(resp, tok, usr) ==
  IF resp # Reject /\ resp.success
  THEN [accessToken |-> Absent, currentUser |-> AbsentUser,
        isLoading |-> FALSE, raised |-> NoError]
  ELSE [accessToken |-> tok, currentUser |-> usr,
        isLoading |-> FALSE,
        raised |-> IF resp = Reject THEN TransportError ELSE INVALID_LOGOUT]

\* handleLogout, from the resumption after `await sendLogoutRequest()`
handleLogout(resp, tok, usr) ==
  IF resp # Reject /\ resp.success
  THEN \* setAccessToken(null); setCurrentUser(null); finally
       [accessToken |-> Null, currentUser |-> NullUser,
        isLoading |-> FALSE, raised |-> NoError]
  ELSE \* catch: throw error; finally setIsLoading(false)
       [accessToken |-> tok, currentUser |-> usr,
        isLoading |-> FALSE,
        raised |-> IF resp = Reject THEN TransportError ELSE INVALID_LOGOUT]

(***************************************************************************)
(* Router: destinations, the redirect search parameter and the guards.     *)
(***************************************************************************)
\* the routes under the _protected layout
ProtectedPaths == {"/account", "/users"}
\* z.enum(["/", "/account", "/users"]) of the authenticating route
KnownPaths == {"/", "/account", "/users"}
\* no redirect search parameter in the URL
NoRedirect == "undefined"
\* redirect values a URL can be entered with
RawRedirects == {NoRedirect, "/account", "/admin", "https://evil.example/"}
\* those the login route is entered with from a URL: none, or a value that is
\* not a path of the application (the authenticating route forwards the rest)
LoginRawRedirects == {NoRedirect, "https://evil.example/"}

\* encodeURIComponent on the locations of the model ("/" becomes "%2F")
encodeURIComponent(s) ==
  CASE s = "/" -> "%2F"
    [] s = "/account" -> "%2Faccount"
    [] s = "/users" -> "%2Fusers"
    [] s = "/admin" -> "%2Fadmin"
    [] s = "https://evil.example/" -> "https%3A%2F%2Fevil.example%2F"

redirectSearchSchemaNoCatch(raw) == IF raw = NoRedirect THEN "/" ELSE raw

\* redirectSearchSchema.parse: z.enum([...]).catch("/")
redirectSearchSchema(raw) == IF raw \in KnownPaths THEN raw ELSE "/"

\* the entry check of the _protected layout run with a router context in which
\* context.authentication.isAuthenticated = authenticated
ProtectedBeforeLoadIn(authenticated, href) ==
  IF ~authenticated
  THEN [thrown |-> TRUE, to |-> "/authenticating",
        redirect |-> encodeURIComponent(href)]
  ELSE [thrown |-> FALSE, to |-> href, redirect |-> NoRedirect]

ProtectedBeforeLoadToLogin(href) ==
  IF ~isAuthenticated
  THEN [thrown |-> TRUE, to |-> "/login", redirect |-> href]
  ELSE [thrown |-> FALSE, to |-> href, redirect |-> NoRedirect]

\* beforeLoad of the _protected layout for location.href = href: the redirect
\* it throws, if any
ProtectedBeforeLoad(href) == ProtectedBeforeLoadIn(isAuthenticated, href)

GateMayNavigateAlways == TRUE

\* the `if (!isLoading)` of the authenticating route's effect
GateMayNavigate == ~isLoading

AuthenticatingTargetDropsRedirect(r) ==
  IF isAuthenticated
  THEN [to |-> r, redirect |-> NoRedirect]
  ELSE [to |-> "/login", redirect |-> NoRedirect]

\* the navigation issued by the authenticating route's effect for the
\* redirect search value r
AuthenticatingTarget(r) ==
  IF isAuthenticated
  THEN [to |-> r, redirect |-> NoRedirect]
  ELSE [to |-> "/login", redirect |-> r]

LoginBeforeLoadNever == [thrown |-> FALSE, to |-> "/login"]

\* beforeLoad of the login route: `if (context.authentication.currentUser)`
\* it throws a redirect to "/", else the route renders the form
LoginBeforeLoad ==
  IF currentUser # AbsentUser /\ currentUser # NullUser
  THEN [thrown |-> TRUE, to |-> "/"]
  ELSE [thrown |-> FALSE, to |-> "/login"]

\* decodeURI on the error messages of the model
decodeURI(s) ==
  CASE s = "invalid%20credentials" -> "invalid credentials"
    [] OTHER -> s

\* the destination the login form navigates to for its redirect search value:
\* `if (routeSearch.redirect) ... else router.navigate({ to: "/" })`
LoginFormTarget(r) == IF r # NoRedirect /\ r # "" THEN r ELSE "/"

LoginFormOnSubmitNavigatesAnyway(raised, r) ==
  [navigate |-> TRUE, to |-> LoginFormTarget(r),
   errorMessage |-> IF raised = NoError THEN "" ELSE decodeURI(raised)]

\* onSubmit of the login form, from the resumption after
\* `await handleLogin(...)`: raised is what handleLogin rejected with, r the
\* form's redirect search value
LoginFormOnSubmit(raised, r) ==
  IF raised = NoError
  THEN \* router.navigate({ to: routeSearch.redirect }) or ({ to: "/" })
       [navigate |-> TRUE, to |-> LoginFormTarget(r), errorMessage |-> ""]
  ELSE \* catch: setErrorMessage(decodeURI(message))
       [navigate |-> FALSE, to |-> "none", errorMessage |-> decodeURI(raised)]

\* the callers that handle a rejection of the promise an operation returns:
\* the login form awaits handleLogin inside try/catch; the mount effect and
\* the logout route call theirs without await or catch
Caught(op) == op = "login"

\* a navigation: who issued it, for which location or search value, where to,
\* the redirect parameter it carries, the Session it observed, (for the
\* authenticating route) the path the entry check had been made for, and the
\* redirect target of the gate that a login is being resumed to
Navigation(by, from, to, param) ==
  [by |-> by, from |-> from, to |-> to, param |-> param,
   loading |-> isLoading, auth |-> isAuthenticated, requested |-> "none",
   resume |-> "none"]

\* nav after a step that is not a navigation
NoNavigation ==
  [by |-> "none", from |-> "none", to |-> "none", param |-> NoRedirect,
   loading |-> FALSE, auth |-> FALSE, requested |-> "none", resume |-> "none"]

(***************************************************************************)
(* State machine.                                                          *)
(*                                                                         *)
(* calls is the log of invocations: calls[i].status is "pending" while the *)
(* i-th invocation is suspended at its await, "fulfilled" or "rejected"    *)
(* once the promise it returned has settled (error: what it rejected       *)
(* with).  last records the most recent step.                              *)
(***************************************************************************)
Pending == {i \in 1..Len(calls) : calls[i].status = "pending"}

\* an invocation; for one made by the login form: the form's redirect search
\* value, the gate's redirect target it stands for (if the gate forwarded the
\* user to the form), and whether that form instance is still mounted
NewCall(op) ==
  [op |-> op, status |-> "pending", error |-> NoError,
   redirect |-> NoRedirect, resume |-> "none", attached |-> FALSE]

\* last for a step that is not the settling of a login form's submission
NoForm == [attached |-> FALSE, redirect |-> NoRedirect]

\* the three services create their client with Client.new()
Invoked(op) ==
  [ev |-> "invoke", op |-> op, id |-> Len(calls) + 1, resp |-> Reject,
   priorToken |-> accessToken, priorUser |-> currentUser,
   bearer |-> ClientNew(Undefined), read |-> NoRead, form |-> NoForm]

Completed(i, resp) ==
  [ev |-> "complete", op |-> calls[i].op, id |-> i, resp |-> resp,
   priorToken |-> accessToken, priorUser |-> currentUser,
   bearer |-> NoBearer, read |-> NoRead,
   form |-> [attached |-> calls[i].attached, redirect |-> calls[i].redirect]]

Settle(i, out) ==
  [calls EXCEPT ![i].status =
                  IF out.raised = NoError THEN "fulfilled" ELSE "rejected",
                ![i].error = out.raised,
                ![i].redirect = NoRedirect,
                ![i].resume = "none",
                ![i].attached = FALSE]

\* a navigation unmounts the login form: submissions still in flight keep
\* running, their form instance is gone
Detach(cs) == [i \in 1..Len(cs) |-> [cs[i] EXCEPT !.attached = FALSE]]

InitialIsLoadingFalse == FALSE

\* useState(true)
InitialIsLoading == TRUE

\* how often React runs the mount effect: once, or twice when the tree is
\* rendered under <StrictMode> by a development build
MountEffectRuns == IF strictMode THEN 2 ELSE 1

\* useState(true), useState(), useState(): the Session before the mount effect,
\* in an application configured with base URL url
InitWith(url) ==
  /\ baseUrl = url
  /\ isLoading = InitialIsLoading
  /\ strictMode \in BOOLEAN
  /\ route = "none"
  /\ redirect = NoRedirect
  /\ requested = "none"
  /\ nav = NoNavigation
  /\ accessToken = Absent
  /\ currentUser = AbsentUser
  /\ mounted = FALSE
  /\ calls = << >>
  /\ last = [ev |-> "init", op |-> "none", id |-> 0, resp |-> Reject,
             priorToken |-> Absent, priorUser |-> AbsentUser,
             bearer |-> NoBearer, read |-> NoRead, form |-> NoForm]
  /\ errorMessage = ""
  /\ resume = "none"
  /\ usersService = NoInstance
  /\ sessionStorage = NoItem

\* the application configured with a valid base URL
Init == InitWith(DefaultBaseUrl)

\* useEffect(() => { ... refreshAccessToken(); }, []): the mount effect calls
\* refreshAccessToken, which runs to `await sendRefreshRequest()`; under
\* StrictMode React runs the effect a second time in the same commit
BootstrapRefresh ==
  /\ ~mounted
  /\ mounted' = TRUE
  /\ isLoading' = TRUE
  /\ calls' = calls \o [k \in 1..MountEffectRuns |-> NewCall("refresh")]
  /\ last' = [Invoked("refresh") EXCEPT !.id = Len(calls')]
  /\ nav' = NoNavigation
  /\ UNCHANGED <<accessToken, currentUser, strictMode, route, redirect, requested>>
  /\ UNCHANGED <<formVars, clientVars>>

\* refreshAccessToken resumes with the outcome of the transport call
RefreshComplete(i, resp) ==
  /\ i \in Pending
  /\ calls[i].op = "refresh"
  /\ resp \in sendRefreshRequest
  /\ LET out == refreshAccessToken(resp, accessToken, currentUser)
     IN /\ accessToken' = out.accessToken
        /\ currentUser' = out.currentUser
        /\ isLoading' = out.isLoading
        /\ calls' = Settle(i, out)
  /\ last' = Completed(i, resp)
  /\ nav' = NoNavigation
  /\ UNCHANGED <<mounted, strictMode, route, redirect, requested>>
  /\ UNCHANGED <<formVars, clientVars>>

\* the login form is submitted: onSubmit sets its error message to "" and
\* calls handleLogin(email, password), which runs to
\* `await sendLoginRequest(email, password)`
HandleLogin ==
  /\ mounted
  /\ route = "/login"
  /\ Len(calls) < MaxCalls
  /\ isLoading' = TRUE
  /\ calls' = Append(calls, [NewCall("login") EXCEPT !.redirect = redirect,
                                                     !.resume = resume,
                                                     !.attached = TRUE])
  /\ last' = Invoked("login")
  /\ nav' = NoNavigation
  /\ errorMessage' = ""
  /\ UNCHANGED <<accessToken, currentUser, mounted, strictMode, route, redirect, requested>>
  /\ UNCHANGED <<resume, clientVars>>

\* handleLogin resumes with the outcome of the transport call and settles;
\* the login form's onSubmit resumes in the same task and navigates or sets
\* its error message.  The router context its navigation is checked against
\* is a snapshot taken at a render: the one before this resumption, or one
\* taken after it when React rendered in between.
LoginComplete(i, resp) ==
  /\ i \in Pending
  /\ calls[i].op = "login"
  /\ resp \in sendLoginRequest
  /\ LET out == handleLogin(resp, accessToken, currentUser)
         submit == LoginFormOnSubmit(out.raised, calls[i].redirect)
     IN /\ accessToken' = out.accessToken
        /\ currentUser' = out.currentUser
        /\ isLoading' = out.isLoading
        /\ IF submit.navigate
           THEN /\ calls' = Detach(Settle(i, out))
                /\ errorMessage' = ""
                /\ \E rendered \in BOOLEAN :
                     LET check ==
                           IF submit.to \notin ProtectedPaths
                           THEN [thrown |-> FALSE, to |-> submit.to,
                                 redirect |-> NoRedirect]
                           ELSE ProtectedBeforeLoadIn(
                                  IF rendered THEN isAuthenticated'
                                  ELSE isAuthenticated, submit.to)
                     IN /\ route' = check.to
                        /\ redirect' = IF check.thrown
                                       THEN redirectSearchSchema(check.redirect)
                                       ELSE NoRedirect
                        /\ requested' = IF check.thrown THEN submit.to ELSE "none"
                        /\ resume' = IF check.thrown THEN calls[i].resume ELSE "none"
                        /\ nav' = [Navigation("form", submit.to, check.to,
                                              check.redirect)
                                     EXCEPT !.auth = ~check.thrown,
                                            !.resume = calls[i].resume]
           ELSE /\ calls' = Settle(i, out)
                /\ errorMessage' = IF calls[i].attached
                                   THEN submit.errorMessage ELSE errorMessage
                /\ nav' = NoNavigation
                /\ UNCHANGED <<route, redirect, requested, resume>>
  /\ last' = Completed(i, resp)
  /\ UNCHANGED <<mounted, strictMode, clientVars>>

HandleLogoutIfAuthenticated ==
  /\ mounted
  /\ Len(calls) < MaxCalls
  /\ IF isAuthenticated
     THEN /\ isLoading' = TRUE
          /\ calls' = Append(Detach(calls), NewCall("logout"))
          /\ last' = Invoked("logout")
     ELSE /\ isLoading' = isLoading
          /\ calls' = Detach(calls)
          /\ last' = [Invoked("logout") EXCEPT !.ev = "navigate", !.id = 0]
  /\ route' = "/logout"
  /\ redirect' = NoRedirect
  /\ requested' = "none"
  /\ nav' = Navigation("url", "/logout", "/logout", NoRedirect)
  /\ errorMessage' = ""
  /\ resume' = "none"
  /\ UNCHANGED <<accessToken, currentUser, mounted, strictMode, clientVars>>

\* the logout route is entered: its beforeLoad calls handleLogout(), which runs
\* to `await sendLogoutRequest()`, and the route renders without awaiting it
HandleLogout ==
  /\ mounted
  /\ Len(calls) < MaxCalls
  /\ isLoading' = TRUE
  /\ calls' = Append(Detach(calls), NewCall("logout"))
  /\ last' = Invoked("logout")
  /\ route' = "/logout"
  /\ redirect' = NoRedirect
  /\ requested' = "none"
  /\ nav' = Navigation("url", "/logout", "/logout", NoRedirect)
  /\ errorMessage' = ""
  /\ resume' = "none"
  /\ UNCHANGED <<accessToken, currentUser, mounted, strictMode, clientVars>>

\* handleLogout resumes with the outcome of the transport call
LogoutComplete(i, resp) ==
  /\ i \in Pending
  /\ calls[i].op = "logout"
  /\ resp \in sendLogoutRequest
  /\ LET out == handleLogout(resp, accessToken, currentUser)
     IN /\ accessToken' = out.accessToken
        /\ currentUser' = out.currentUser
        /\ isLoading' = out.isLoading
        /\ calls' = Settle(i, out)
  /\ last' = Completed(i, resp)
  /\ nav' = NoNavigation
  /\ UNCHANGED <<mounted, strictMode, route, redirect, requested>>
  /\ UNCHANGED <<formVars, clientVars>>

sessionVars == <<isLoading, accessToken, currentUser, mounted, calls>>

\* last after a step that is a navigation only
Navigated ==
  [ev |-> "navigate", op |-> "none", id |-> 0, resp |-> Reject,
   priorToken |-> accessToken, priorUser |-> currentUser,
   bearer |-> NoBearer, read |-> NoRead, form |-> NoForm]

\* a protected destination href is requested: the _protected layout's
\* beforeLoad runs; its redirect, if thrown, is followed to the authenticating
\* route, whose validateSearch parses the redirect parameter
EnterProtected(href) ==
  /\ href \in ProtectedPaths
  /\ LET check == ProtectedBeforeLoad(href)
     IN /\ route' = check.to
        /\ redirect' = IF check.thrown THEN redirectSearchSchema(check.redirect)
                       ELSE NoRedirect
        /\ requested' = IF check.thrown THEN href ELSE "none"
        /\ nav' = Navigation("entry", href, check.to, check.redirect)
  /\ last' = Navigated
  /\ calls' = Detach(calls)
  /\ errorMessage' = ""
  /\ resume' = "none"
  /\ UNCHANGED <<storeVars, strictMode, clientVars>>

\* the authenticating route is entered from a URL carrying redirect=raw
EnterAuthenticating(raw) ==
  /\ raw \in RawRedirects
  /\ route' = "/authenticating"
  /\ redirect' = redirectSearchSchema(raw)
  /\ requested' = "none"
  /\ nav' = Navigation("url", "/authenticating", "/authenticating", raw)
  /\ last' = Navigated
  /\ calls' = Detach(calls)
  /\ errorMessage' = ""
  /\ resume' = "none"
  /\ UNCHANGED <<storeVars, strictMode, clientVars>>

AuthenticatingEffectClearsSession ==
  /\ route = "/authenticating"
  /\ GateMayNavigate
  /\ LET target == AuthenticatingTarget(redirect)
     IN /\ route' = target.to
        /\ redirect' = target.redirect
        /\ nav' = [Navigation("gate", redirect, target.to, target.redirect)
                     EXCEPT !.requested = requested, !.resume = resume]
        /\ resume' = IF target.to = "/login" THEN target.redirect ELSE "none"
  /\ requested' = "none"
  /\ last' = Navigated
  /\ calls' = Detach(calls)
  /\ errorMessage' = ""
  /\ accessToken' = Null
  /\ currentUser' = NullUser
  /\ UNCHANGED <<isLoading, mounted, strictMode, clientVars>>

\* the effect of AuthenticatingRouteComponent: once isLoading is false it
\* navigates to the redirect value or to the login route
AuthenticatingEffect ==
  /\ route = "/authenticating"
  /\ GateMayNavigate
  /\ LET target == AuthenticatingTarget(redirect)
     IN /\ route' = target.to
        /\ redirect' = target.redirect
        /\ nav' = [Navigation("gate", redirect, target.to, target.redirect)
                     EXCEPT !.requested = requested, !.resume = resume]
        /\ resume' = IF target.to = "/login" THEN target.redirect ELSE "none"
  /\ requested' = "none"
  /\ last' = Navigated
  /\ calls' = Detach(calls)
  /\ errorMessage' = ""
  /\ UNCHANGED <<storeVars, strictMode, clientVars>>

\* the login route is entered from a URL carrying redirect=raw: its beforeLoad
\* redirects to "/" when currentUser is set, else the form renders
EnterLogin(raw) ==
  /\ raw \in LoginRawRedirects
  /\ route' = LoginBeforeLoad.to
  /\ redirect' = IF LoginBeforeLoad.thrown THEN NoRedirect ELSE raw
  /\ requested' = "none"
  /\ nav' = Navigation("url", "/login", route', raw)
  /\ last' = Navigated
  /\ calls' = Detach(calls)
  /\ errorMessage' = ""
  /\ resume' = "none"
  /\ UNCHANGED <<storeVars, strictMode, clientVars>>

Next ==
  \/ \E href \in ProtectedPaths : EnterProtected(href)
  \/ \E raw \in RawRedirects : EnterAuthenticating(raw)
  \/ AuthenticatingEffect
  \/ \E raw \in LoginRawRedirects : EnterLogin(raw)
  \/ BootstrapRefresh
  \/ \E i \in 1..Len(calls), resp \in sendRefreshRequest : RefreshComplete(i, resp)
  \/ HandleLogin
  \/ \E i \in 1..Len(calls), resp \in sendLoginRequest : LoginComplete(i, resp)
  \/ HandleLogout
  \/ \E i \in 1..Len(calls), resp \in sendLogoutRequest : LogoutComplete(i, resp)

Spec == Init /\ [][Next]_vars

(***************************************************************************)
(* The client outside the provider: the users index query of the /users    *)
(* route, the authentication mutation hook and reads through the accessor, *)
(* next to the bootstrap refresh, the logout route and the entry into      *)
(* /users.  The token of the Session is replaced when a second bootstrap   *)
(* refresh (StrictMode) answers with another token.                        *)
(***************************************************************************)
\* last for a step of the client that is neither an operation of the provider
\* nor a navigation
ClientStep(ev, op, resp, bearer, read) ==
  [ev |-> ev, op |-> op, id |-> 0, resp |-> resp,
   priorToken |-> accessToken, priorUser |-> currentUser,
   bearer |-> bearer, read |-> read, form |-> NoForm]

\* queryFn of useUsersIndexQuery(accessToken ?? undefined), run while the
\* /users route is rendered: UsersService.getInstance(accessToken), then
\* usersService.index(...) over the singleton's client
UsersIndexQuery ==
  /\ route = "/users"
  /\ usersService' = UsersServiceGetInstance(NullishToUndefined(accessToken))
  /\ last' = ClientStep("query", "users.index", Reject, usersService', NoRead)
  /\ nav' = NoNavigation
  /\ UNCHANGED <<storeVars, calls, strictMode, route, redirect, requested>>
  /\ UNCHANGED <<formVars, sessionStorage, baseUrl>>

\* the mutation of useAuthenticationMutation: mutationFn sends the login
\* request over Client.new(); onSuccess stores data.accessToken in
\* sessionStorage.  The mutation does not touch the Session, so the request
\* and its onSuccess are one step.
AuthenticationMutation(resp) ==
  /\ resp \in sendLoginRequest
  /\ sessionStorage' = IF resp = Reject THEN sessionStorage
                       ELSE StringOf(resp.accessToken)
  /\ last' = ClientStep("mutate", "login", resp, ClientNew(Undefined), NoRead)
  /\ nav' = NoNavigation
  /\ UNCHANGED <<storeVars, calls, strictMode, route, redirect, requested>>
  /\ UNCHANGED <<formVars, usersService, baseUrl>>

\* a component calls useAuthentication(), rendered inside the provider or
\* outside of it
UseAuthentication(inScope) ==
  /\ inScope \in BOOLEAN
  /\ last' = ClientStep("read", IF inScope THEN "inside" ELSE "outside", Reject,
                        NoBearer,
                        useAuthentication(IF inScope THEN Authentication
                                          ELSE UndefinedContext))
  /\ nav' = NoNavigation
  /\ UNCHANGED <<storeVars, calls, strictMode, route, redirect, requested>>
  /\ UNCHANGED <<formVars, clientVars>>

NextClient ==
  \/ EnterProtected("/users")
  \/ BootstrapRefresh
  \/ \E i \in 1..Len(calls), resp \in sendRefreshRequest : RefreshComplete(i, resp)
  \/ HandleLogout
  \/ \E i \in 1..Len(calls), resp \in sendLogoutRequest : LogoutComplete(i, resp)
  \/ UsersIndexQuery
  \/ \E resp \in sendLoginRequest : AuthenticationMutation(resp)
  \/ \E inScope \in BOOLEAN : UseAuthentication(inScope)

SpecClient == Init /\ [][NextClient]_vars

(***************************************************************************)
(* The application under every configuration of the base URL.              *)
(***************************************************************************)
InitConfig == \E url \in BaseUrls : InitWith(url)

SpecConfig == InitConfig /\ [][Next]_vars

TypeOK ==
  /\ isLoading \in BOOLEAN
  /\ mounted \in BOOLEAN
  /\ Len(calls) <= MaxCalls


(***************************************************************************)
(* Properties of the Session.                                              *)
(***************************************************************************)
\* a response that carries a token and a user payload
CompleteResponse(resp) ==
  resp # Reject /\ resp.accessToken \in Tokens /\ resp.user \in UserResponses

\* a success-status response that lacks the token or the user payload
IncompleteResponse(resp) ==
  resp # Reject /\ (resp.accessToken \in {Undefined, ""} \/ resp.user = NoUserResponse)

\* the step just taken is the completion of operation op
JustCompleted(op) == last.ev = "complete" /\ last.op = op

LoggedOut == accessToken = Null /\ currentUser = NullUser

\* C1: in every reachable state accessToken is a concrete string iff
\* currentUser is a concrete User; otherwise both are Null or both are Absent.
C1_PairingInvariant ==
  /\ accessToken \in Tokens <=> currentUser \in Users
  /\ accessToken = Null <=> currentUser = NullUser
  /\ accessToken = Absent <=> currentUser = AbsentUser
  /\ accessToken \in Tokens \cup {Null, Absent}

\* a token/user pair set by one operation while another is still in flight
C1_Witness ==
  /\ accessToken \in Tokens
  /\ currentUser \in Users
  /\ Pending # {}
  /\ last.ev = "complete"
  /\ last.priorToken = Null

\* C2: isLoading is true in every state in which one of the three operations
\* has been invoked and has not completed.
C2_LoadingBracket == Pending # {} => isLoading

\* C3: once the bootstrap refresh has been initiated, isLoading is false
\* whenever no operation is in flight, and every completion (rejected call
\* and incomplete response included) resets it to false.
C3_NoStuckLoading ==
  /\ (mounted /\ Pending = {}) => ~isLoading
  /\ last.ev = "complete" => ~isLoading

\* nothing in flight after a rejected call and an incomplete response
C3_Witness ==
  /\ mounted
  /\ Pending = {}
  /\ \E i \in 1..Len(calls) : calls[i].error = RpcError
  /\ last.ev = "complete"
  /\ IncompleteResponse(last.resp)
  /\ ~isLoading

\* C4: at most one of the three operations is in flight at any time.
C4_AtMostOneInFlight == Cardinality(Pending) <= 1

\* C5: the bootstrap refresh run alone ends at isLoading=false with
\* (Null, Null), isAuthenticated=false when the transport call is rejected and
\* with the response's (token, User), isAuthenticated=true when it succeeds.
C5_BootstrapAlone ==
  (Len(calls) = 1 /\ JustCompleted("refresh")) =>
    /\ ~isLoading
    /\ last.resp = Reject => (LoggedOut /\ ~isAuthenticated)
    /\ CompleteResponse(last.resp) =>
         /\ accessToken = last.resp.accessToken
         /\ currentUser \in Users
         /\ currentUser.id = last.resp.user.id
         /\ isAuthenticated

\* the bootstrap refresh, alone, was rejected by the transport
C5_Witness ==
  /\ Len(calls) = 1
  /\ JustCompleted("refresh")
  /\ last.resp = Reject
  /\ LoggedOut

\* C6: a failure of the bootstrap refresh never escapes it: its promise never
\* rejects, and the failure shows only as the logged-out Session.
C6_RefreshNeverRaises ==
  /\ \A i \in 1..Len(calls) :
       calls[i].op = "refresh" =>
         (calls[i].status # "rejected" /\ calls[i].error = NoError)
  /\ (JustCompleted("refresh") /\ ~CompleteResponse(last.resp)) =>
       (LoggedOut /\ ~isLoading /\ calls[last.id].status = "fulfilled")

\* the bootstrap refresh failed on a response without a user payload
C6_Witness ==
  /\ JustCompleted("refresh")
  /\ last.resp # Reject
  /\ last.resp.user = NoUserResponse
  /\ calls[last.id].status = "fulfilled"

\* C7: a login whose response has a non-empty token and a user sets
\* accessToken and currentUser from that response, whatever the Session held
\* before, and returns normally.
C7_LoginSuccess ==
  (JustCompleted("login") /\ CompleteResponse(last.resp)) =>
    /\ accessToken = last.resp.accessToken
    /\ currentUser \in Users
    /\ currentUser.id = last.resp.user.id
    /\ calls[last.id].status = "fulfilled"
    /\ calls[last.id].error = NoError

\* a re-login from AUTHENTICATED that replaced the token
C7_Witness ==
  /\ JustCompleted("login")
  /\ CompleteResponse(last.resp)
  /\ last.priorToken \in Tokens
  /\ last.priorToken # last.resp.accessToken
  /\ accessToken = last.resp.accessToken

\* C8: a login whose transport call is rejected sets (Null, Null), whatever
\* the Session held before, and re-raises the failure; the Session is updated
\* in the state in which the rejection becomes visible.
C8_LoginRejected ==
  (JustCompleted("login") /\ last.resp = Reject) =>
    /\ LoggedOut
    /\ calls[last.id].status = "rejected"
    /\ calls[last.id].error = RpcError

\* a rejected login from AUTHENTICATED
C8_Witness ==
  /\ JustCompleted("login")
  /\ last.resp = Reject
  /\ last.priorToken \in Tokens
  /\ calls[last.id].status = "rejected"
  /\ LoggedOut

\* C9: a success-status response to login or refresh without a token (unset
\* or empty) or without a user is handled like a transport failure: the
\* Session becomes (Null, Null), login raises, the bootstrap refresh does not.
C9_IncompleteResponse ==
  (last.ev = "complete" /\ last.op \in {"login", "refresh"}
     /\ IncompleteResponse(last.resp)) =>
    /\ LoggedOut
    /\ last.op = "login" =>
         (calls[last.id].status = "rejected" /\ calls[last.id].error # NoError)
    /\ last.op = "refresh" => calls[last.id].status = "fulfilled"

\* a login from AUTHENTICATED answered with an empty token and a user
C9_Witness ==
  /\ JustCompleted("login")
  /\ last.resp # Reject
  /\ last.resp.accessToken = ""
  /\ last.resp.user \in UserResponses
  /\ last.priorToken \in Tokens
  /\ calls[last.id].status = "rejected"

\* C10: a logout whose response signals success sets (Null, Null), from
\* AUTHENTICATED and from any other Session, and returns normally.
C10_LogoutSuccess ==
  (JustCompleted("logout") /\ last.resp # Reject /\ last.resp.success) =>
    /\ LoggedOut
    /\ calls[last.id].status = "fulfilled"

\* a successful logout from AUTHENTICATED
C10_Witness ==
  /\ JustCompleted("logout")
  /\ last.resp # Reject
  /\ last.resp.success
  /\ last.priorToken \in Tokens
  /\ last.priorUser \in Users
  /\ LoggedOut


\* C11: a logout that fails (rejected call, or a response with success=false)
\* leaves accessToken and currentUser as they were and raises an error to the
\* caller; isLoading is false afterwards.
C11_LogoutFailure ==
  (JustCompleted("logout") /\ (last.resp = Reject \/ ~last.resp.success)) =>
    /\ accessToken = last.priorToken
    /\ currentUser = last.priorUser
    /\ ~isLoading
    /\ calls[last.id].status = "rejected"
    /\ calls[last.id].error =
         (IF last.resp = Reject THEN RpcError ELSE INVALID_LOGOUT)

\* a logout from AUTHENTICATED answered with success=false
C11_Witness ==
  /\ JustCompleted("logout")
  /\ last.resp # Reject
  /\ ~last.resp.success
  /\ last.priorToken \in Tokens
  /\ accessToken = last.priorToken
  /\ currentUser \in Users
  /\ calls[last.id].status = "rejected"

decodeURIComponent(s) ==
  CASE s = "%2F" -> "/"
    [] s = "%2Faccount" -> "/account"
    [] s = "%2Fusers" -> "/users"
    [] OTHER -> s

\* the invocations of refreshAccessToken so far
RefreshCalls == {i \in 1..Len(calls) : calls[i].op = "refresh"}

\* C13: across one application lifecycle the bootstrap refresh is invoked
\* exactly once: never more than once, and once as soon as the mount effect
\* has run.
C13_BootstrapOnce ==
  /\ Cardinality(RefreshCalls) <= 1
  /\ mounted => Cardinality(RefreshCalls) = 1

\* C14: before the bootstrap refresh has been initiated the Session is
\* (Absent, Absent) with isLoading true and isAuthenticated false, so an entry
\* check that observed isLoading=false was made after the initiation.
C14_NoResolvedBeforeBootstrap ==
  /\ ~mounted =>
       (isLoading /\ accessToken = Absent /\ currentUser = AbsentUser
          /\ ~isAuthenticated)
  /\ (nav.by = "entry" /\ ~nav.loading) => mounted

\* an entry check made before the mount effect ran: it saw a loading Session
C14_Witness ==
  /\ ~mounted
  /\ nav.by = "entry"
  /\ nav.loading
  /\ ~nav.auth
  /\ route = "/authenticating"

\* C15: a protected destination is rendered only while the Session is
\* AUTHENTICATED.
C15_ProtectedOnlyWhenAuthenticated ==
  route \in ProtectedPaths => isAuthenticated

\* C16: the protected-area entry check redirects to the authenticating
\* destination with the requested path (URL-encoded) as the redirect parameter
\* when isAuthenticated is false, and does not redirect when it is true.
C16_EntryCheck ==
  nav.by = "entry" =>
    /\ ~nav.auth =>
         /\ nav.to = "/authenticating"
         /\ route = "/authenticating"
         /\ nav.param # NoRedirect
         /\ decodeURIComponent(nav.param) = nav.from
    /\ nav.auth =>
         /\ nav.to = nav.from
         /\ route = nav.from
         /\ nav.param = NoRedirect

\* the entry check for /users against a resolved, unauthenticated Session
C16_Witness ==
  /\ nav.by = "entry"
  /\ nav.from = "/users"
  /\ ~nav.auth
  /\ ~nav.loading
  /\ nav.param = "%2Fusers"
  /\ route = "/authenticating"

\* C17: when the entry check for a protected path led to the authenticating
\* destination and the Session resolves to AUTHENTICATED, the gate navigates
\* to that same path.
C17_GateRestoresRequestedPath ==
  (nav.by = "gate" /\ nav.auth /\ nav.requested # "none") =>
    nav.to = nav.requested

\* C18: the authenticating destination navigates only in a state where
\* isLoading is false.
C18_NoNavigationWhileLoading ==
  nav.by = "gate" => ~nav.loading

\* the gate forwarded an unauthenticated user once loading had ended
C18_Witness ==
  /\ nav.by = "gate"
  /\ ~nav.loading
  /\ ~nav.auth
  /\ route = "/login"

\* C19: a navigation issued by the authenticating gate targets its redirect
\* value when isAuthenticated is true and the login destination carrying that
\* same redirect value when it is false, and nothing else.
C19_GateRedirectClosure ==
  nav.by = "gate" =>
    /\ nav.auth => (nav.to = nav.from /\ route = nav.from)
    /\ ~nav.auth =>
         (nav.to = "/login" /\ route = "/login" /\ nav.param = nav.from
            /\ redirect = nav.from)
    /\ nav.from \in KnownPaths

\* the gate sent an authenticated user to its redirect value /account
C19_Witness ==
  /\ nav.by = "gate"
  /\ nav.auth
  /\ nav.from = "/account"
  /\ route = "/account"

IssuedCall == last.ev \in {"invoke", "query", "mutate"}

\* C21: every backend call issued while the Session holds a token T carries
\* the bearer credential T, also after the token changed; a call issued with
\* no known token carries no bearer credential.
C21_BearerIsCurrentToken ==
  IssuedCall =>
    /\ accessToken \in Tokens =>
         last.bearer = [scheme |-> "Bearer", token |-> accessToken]
    /\ accessToken \notin Tokens => last.bearer = NoBearer

\* C22: in every reachable state sessionStorage holds no access token.
C22_NoTokenInStorage == sessionStorage \notin Tokens

\* C23: entering the login route while currentUser is a User redirects to "/"
\* and the form is not rendered; entering it while currentUser is Absent or
\* Null renders the form.
C23_LoginEntry ==
  (nav.by = "url" /\ nav.from = "/login") =>
    /\ last.priorUser \in Users =>
         (nav.to = "/" /\ route = "/" /\ redirect = NoRedirect)
    /\ last.priorUser \in {AbsentUser, NullUser} =>
         (nav.to = "/login" /\ route = "/login")

\* the login route entered by an authenticated user
C23_Witness ==
  /\ nav.by = "url"
  /\ nav.from = "/login"
  /\ currentUser \in Users
  /\ last.priorUser \in Users
  /\ route = "/"

\* C24: every entry into the logout route invokes handleLogout, whatever the
\* Session holds (unknown, loading, unauthenticated or authenticated).
C24_LogoutEntryInvokes ==
  nav.to = "/logout" =>
    /\ route = "/logout"
    /\ last.ev = "invoke"
    /\ last.op = "logout"
    /\ last.id = Len(calls)
    /\ calls[last.id].op = "logout"
    /\ calls[last.id].status = "pending"

\* the logout route entered by a user who is already logged out
C24_Witness ==
  /\ nav.to = "/logout"
  /\ ~nav.auth
  /\ ~nav.loading
  /\ last.priorUser = NullUser
  /\ calls[Len(calls)].op = "logout"
  /\ calls[Len(calls)].status = "pending"

\* C25: entering the logout route never leaves an unhandled error: when the
\* logout it triggers fails, the rejection of its promise is handled.
C25_LogoutEntryNoError ==
  \A i \in 1..Len(calls) :
    (calls[i].op = "logout" /\ calls[i].status = "rejected") =>
      Caught(calls[i].op)

\* C26: when the bootstrap refresh has failed for a user who requested a
\* protected path, the gate routes to the login route carrying the path that
\* was requested as the redirect parameter, and the form shows no error text.
C26_FailedBootstrapToLogin ==
  (nav.by = "gate" /\ nav.requested # "none" /\ ~nav.auth
     /\ Pending = {} /\ \A i \in 1..Len(calls) : calls[i].op = "refresh") =>
    /\ route = "/login"
    /\ decodeURIComponent(redirect) = nav.requested
    /\ errorMessage = ""

\* C27: after the gate forwarded an unauthenticated user to the login route
\* with redirect parameter r, a successful login ends with r rendered, not with
\* the login route or another destination.
C27_LoginResumesRedirect ==
  (nav.by \in {"form", "gate"} /\ nav.resume # "none"
     /\ route # "/authenticating") =>
    route = nav.resume

RoleGuest == "guest"

\* C29: mapping a server user to a User keeps a role of {admin, user, guest}
\* and maps any other role value to the least privileged role.
C29_RoleFallback ==
  (last.ev = "complete" /\ last.op \in {"login", "refresh"}
     /\ CompleteResponse(last.resp)) =>
    currentUser.role = (IF last.resp.user.role \in Role
                        THEN last.resp.user.role ELSE RoleGuest)

\* C30: useAuthentication outside the provider raises the context error and
\* returns no Session; inside it returns the current Session and leaves it as
\* it is.
C30_AccessorScope ==
  last.ev = "read" =>
    /\ last.op = "outside" =>
         (last.read.thrown = CONTEXT_ERROR /\ last.read.value = UndefinedContext)
    /\ last.op = "inside" =>
         (last.read.thrown = "none" /\ last.read.value = Authentication)

\* a read outside the provider while the Session is authenticated
C30_Witness ==
  /\ last.ev = "read"
  /\ last.op = "outside"
  /\ last.read.thrown = CONTEXT_ERROR
  /\ currentUser \in Users


(***************************************************************************)
(* Properties of overlapping and hung operations, of the frame of the      *)
(* Session, and of the login form's navigation target.                     *)
(***************************************************************************)
\* C31: while the transport call of an operation has not completed (and so in
\* every later state, if it never completes) isLoading is true and the
\* authenticating gate does not navigate.
C31_HungCallKeepsLoading ==
  Pending # {} => (isLoading /\ nav.by # "gate")

\* C32: the protected entry check, the authenticating gate, the login route's
\* check and the login form's navigation leave isLoading, accessToken and
\* currentUser as they are; the Session after a step is the one the store
\* operation of that step (if any) produced.
C32_SessionFrame ==
  /\ last.ev = "navigate" =>
       /\ accessToken = last.priorToken
       /\ currentUser = last.priorUser
       /\ isLoading = nav.loading
  /\ nav.by = "form" =>
       LET out == handleLogin(last.resp, last.priorToken, last.priorUser)
       IN /\ accessToken = out.accessToken
          /\ currentUser = out.currentUser
          /\ isLoading = out.isLoading

\* the gate forwarded an authenticated user to a protected path
C32_Witness ==
  /\ last.ev = "navigate"
  /\ nav.by = "gate"
  /\ nav.auth
  /\ route = "/account"
  /\ accessToken \in Tokens
  /\ currentUser \in Users

\* a login or logout issued by the user has completed
UserOperationCompleted ==
  \E j \in 1..Len(calls) :
    calls[j].op \in {"login", "logout"} /\ calls[j].status # "pending"

\* C33: once a login or logout issued by the user has completed, the
\* completion of a bootstrap refresh that was in flight meanwhile leaves
\* accessToken and currentUser as they are.
C33_LateRefreshKeepsSession ==
  (JustCompleted("refresh") /\ UserOperationCompleted) =>
    (accessToken = last.priorToken /\ currentUser = last.priorUser)

\* C34: in every authenticated state accessToken and currentUser are the token
\* and the user of one and the same backend response.
C34_TokenAndUserOfOneResponse ==
  isAuthenticated =>
    \E resp \in TokenResponses :
      /\ CompleteResponse(resp)
      /\ accessToken = resp.accessToken
      /\ currentUser = userFromUserResponse(resp.user)

\* two logins in flight together completed in the reverse order of their
\* submission, each with its own token and user
C34_Witness ==
  /\ JustCompleted("login")
  /\ CompleteResponse(last.resp)
  /\ last.priorToken \in Tokens
  /\ last.priorToken # last.resp.accessToken
  /\ last.priorUser # currentUser
  /\ \E j \in (last.id + 1)..Len(calls) :
       calls[j].op = "login" /\ calls[j].status = "fulfilled"

\* the Session has left the Absent state: a bootstrap refresh or a login has
\* completed, or a logout has succeeded
LeftAbsent ==
  \E i \in 1..Len(calls) :
    \/ calls[i].op \in {"refresh", "login"} /\ calls[i].status # "pending"
    \/ calls[i].op = "logout" /\ calls[i].status = "fulfilled"

\* C35: once a bootstrap refresh or a login has completed or a logout has
\* succeeded, accessToken and currentUser are Null or concrete, never Absent.
C35_NeverBackToAbsent ==
  LeftAbsent => (accessToken # Absent /\ currentUser # AbsentUser)

\* a logout succeeded before the bootstrap refresh completed
C35_Witness ==
  /\ JustCompleted("logout")
  /\ calls[last.id].status = "fulfilled"
  /\ last.priorToken = Absent
  /\ \A i \in 1..Len(calls) : calls[i].op = "refresh" => calls[i].status = "pending"
  /\ LoggedOut

\* C36: the destination the login form navigates to after a successful login
\* is "/" or a path of the closed set, whatever redirect search value the
\* login route was entered with.
C36_FormTargetInClosedSet ==
  nav.by = "form" => nav.from \in KnownPaths


\* C37: with a missing or invalid base URL no client is created and no
\* request is sent; login and logout reject to their caller, the bootstrap
\* refresh ends in (Null, Null) without raising, and isLoading is false after
\* each of the three.
C37_NoClientWithoutBaseUrl ==
  (~Truthy(baseUrl) \/ ~isValidUrl(baseUrl)) =>
    /\ last.ev = "invoke" => last.bearer = NoClient
    /\ last.ev = "complete" =>
         /\ last.resp = Reject
         /\ ~isLoading
         /\ last.op \in {"login", "logout"} =>
              /\ calls[last.id].status = "rejected"
              /\ calls[last.id].error = CLIENT_ERROR
         /\ last.op = "refresh" =>
              /\ calls[last.id].status = "fulfilled"
              /\ calls[last.id].error = NoError
              /\ LoggedOut

\* a login submitted in an application whose base URL is not set
C37_Witness ==
  /\ baseUrl = Undefined
  /\ JustCompleted("login")
  /\ calls[last.id].status = "rejected"
  /\ calls[last.id].error = CLIENT_ERROR
  /\ errorMessage = CLIENT_ERROR
  /\ LoggedOut
  /\ ~isLoading

====
